---- MODULE Spec2Model ----
(***************************************************************************)
(* Model of the System Design Co-Pilot agent (agent.py, database.py).      *)
(*                                                                         *)
(* A turn is one call of SystemDesignAgent.run_agent_stream.  It loads or  *)
(* creates a session, appends the user input, and then iterates over       *)
(* graph.stream(current_state); after every chunk it re-runs the router on *)
(* its own copy of the state and saves the session.                        *)
(*                                                                         *)
(* Text is modelled as a sequence of atoms.  An atom is a single character *)
(* (all user input is spelled character by character, so that lower(),     *)
(* strip() and the substring test of the router are computed for real) or  *)
(* a name standing for one string literal or one model reply.              *)
(***************************************************************************)
EXTENDS Integers, Sequences, FiniteSets, TLC

\* ------------------------------------------------------------------ bounds
MaxTurns == 2         \* number of turns started in a behaviour
MaxSessions == 2      \* number of ObjectIds the driver issues
MaxFaults == 1        \* number of failing collaborator calls in a behaviour
RecursionLimit == 3   \* supersteps graph.stream runs before it raises
                      \* GraphRecursionError (the library default is larger)

AllWorkers == {1, 2}   \* threads that can run a turn (app.py:161)
SeqWorkers == {1}      \* the specification of sequential turns uses one

\* ------------------------------------------------------------------ text
Upper == <<"A","B","C","D","E","F","G","H","I","J","K","L","M",
           "N","O","P","Q","R","S","T","U","V","W","X","Y","Z">>
LowerCase == <<"a","b","c","d","e","f","g","h","i","j","k","l","m",
               "n","o","p","q","r","s","t","u","v","w","x","y","z">>
Whitespace == {" ", "\n", "\t"}

LowerChar(c) ==
    IF \E i \in DOMAIN Upper : Upper[i] = c
    THEN LowerCase[CHOOSE i \in DOMAIN Upper : Upper[i] = c]
    ELSE c

\* a lower() that is left out
Lower_identity(s) == s

\* str.lower()
Lower(s) == [i \in DOMAIN s |-> LowerChar(s[i])]

\* whitespace removed everywhere, as str.replace(" ", "") would do
Strip_everywhere(s) == SelectSeq(s, LAMBDA c : c \notin Whitespace)

\* str.strip(): drop leading and trailing whitespace
Strip(s) ==
    LET nonWs == {i \in DOMAIN s : s[i] \notin Whitespace}
    IN  IF nonWs = {} THEN <<>>
        ELSE LET lo == CHOOSE i \in nonWs : \A j \in nonWs : i <= j
                 hi == CHOOSE i \in nonWs : \A j \in nonWs : j <= i
             IN  SubSeq(s, lo, hi)

\* the Python test  t in s  on strings
Contains(s, t) ==
    \E i \in 0..(Len(s) - Len(t)) : SubSeq(s, i + 1, i + Len(t)) = t

TokNext == <<"[","n","e","x","t","]">>
TokBack == <<"[","b","a","c","k","]">>
TokSummarize == <<"[","s","u","m","m","a","r","i","z","e","]">>
TokEnd == <<"[","e","n","d","]">>
TokExit == <<"[","e","x","i","t","]">>

\* ------------------------------------------------------------------ phases
phases == <<"vision_and_scoping", "functional_requirements", "data_model",
            "nfr_and_scale", "architecture_and_components",
            "deep_dive_and_tradeoffs">>

PhaseSet == {phases[i] : i \in DOMAIN phases}

\* list.index(), 0-based; only defined for members of the list
PhaseIndex(p) == (CHOOSE i \in DOMAIN phases : phases[i] = p) - 1
PhaseAt(i) == phases[i + 1]

Min(a, b) == IF a < b THEN a ELSE b
Max(a, b) == IF a > b THEN a ELSE b

ValueError == "ValueError"

\* _router without min() and max(): phases[len] raises, phases[-1] is the
\* last phase
_router_unclamped(current_phase, user_command) ==
    LET command == Strip(Lower(user_command))
        i == PhaseIndex(current_phase)
    IN  IF Contains(command, TokNext)
        THEN IF current_phase \in PhaseSet
             THEN (IF i + 1 < Len(phases) THEN PhaseAt(i + 1) ELSE "IndexError")
             ELSE ValueError
        ELSE IF Contains(command, TokBack)
        THEN IF current_phase \in PhaseSet
             THEN (IF i - 1 >= 0 THEN PhaseAt(i - 1) ELSE PhaseAt(Len(phases) - 1))
             ELSE ValueError
        ELSE IF Contains(command, TokSummarize) THEN "summarize"
        ELSE IF Contains(command, TokEnd) \/ Contains(command, TokExit)
        THEN "end"
        ELSE current_phase

_router(current_phase, user_command) ==
    LET command == Strip(Lower(user_command))
    IN  IF Contains(command, TokNext)
        THEN IF current_phase \in PhaseSet
             THEN PhaseAt(Min(PhaseIndex(current_phase) + 1, Len(phases) - 1))
             ELSE ValueError
        ELSE IF Contains(command, TokBack)
        THEN IF current_phase \in PhaseSet
             THEN PhaseAt(Max(PhaseIndex(current_phase) - 1, 0))
             ELSE ValueError
        ELSE IF Contains(command, TokSummarize) THEN "summarize"
        ELSE IF Contains(command, TokEnd) \/ Contains(command, TokExit)
        THEN "end"
        ELSE current_phase

\* ------------------------------------------------------------------ inputs
Txt_hi == <<"h","i">>
Cmd_next == TokNext
Cmd_BACK == <<" ","[","B","A","C","K","]"," ">>
Cmd_summarize == TokSummarize
Cmd_end == TokEnd
Cmd_exit == TokExit

\* user inputs of the turns
TurnCommands == {Txt_hi, Cmd_next, Cmd_BACK, Cmd_summarize, Cmd_end}

\* replies of the language model
LLMReplies == {<<"reply">>}

NoneId == 0       \* discussion_id = None
InvalidId == -1   \* a string that is not a valid ObjectId
SessionIds == 1..MaxSessions
IdArgs == {NoneId, InvalidId} \cup SessionIds

\* an id generator that hands out the first id again
new_id_reused(issued) == 1

\* str(ObjectId()): the ids are numbered in the order they are generated
new_id(issued) == issued + 1

\* ------------------------------------------------------------------ state
VARIABLES
    db,       \* discussions collection: id -> <<>> (no document) or <<state>>
    nextId,   \* number of ObjectIds generated so far
    turns,    \* number of turns started
    faults,   \* number of failed collaborator calls
    pc,       \* per thread: "idle", "stream", "yielded", "done"
    cur,      \* per thread: current_state of run_agent_stream
    gs,       \* per thread: the channel values of the running graph
    gnext,    \* per thread: node the graph runs next, or "END"
    gstep,    \* per thread: supersteps executed by graph.stream
    chunk,    \* per thread: the chunk just yielded by graph.stream
    out,      \* per thread: results yielded by run_agent_stream in this turn
    ran,      \* per thread: nodes executed in this turn, in order
    routed,   \* per thread: current_phase values passed to _router this turn
    pre,      \* per thread: what the store held for the session at turn start
    closed,   \* ids of the discussions whose graph run has reached END
    ranIn,    \* per discussion id: the phases whose node has been invoked
    req,      \* per thread: the discussion_id argument of the turn
    saveRet,  \* per thread: what save_discussion returned in the last pass
              \* of the loop body, "none" when the pass did not reach it
    current_discussion_id,  \* ChatApp.current_discussion_id (app.py:66)
    rq        \* router query of the router-only specification

vars == <<db, nextId, turns, faults, pc, cur, gs, gnext, gstep, chunk, out,
          ran, routed, pre, closed, ranIn, req, saveRet,
          current_discussion_id, rq>>

turnVars == <<db, nextId, turns, faults, pc, cur, gs, gnext, gstep, chunk,
              out, ran, routed, pre, closed, ranIn, req, saveRet,
              current_discussion_id>>

AgentState(id, history, phase, doc, command) ==
    [discussion_id |-> id, conversation_history |-> history,
     current_phase |-> phase, design_document |-> doc,
     user_command |-> command]

\* a document that starts with an empty fragment for every phase
EmptyDoc_every_phase == [p \in PhaseSet |-> <<>>]

EmptyDoc == [p \in {} |-> <<>>]
BlankState == AgentState(0, <<>>, "", EmptyDoc, <<>>)
NoChunk == [node |-> "", conversation_history |-> <<>>, design_document |-> <<>>]

\* dict.get(key, "") and dict[key] = value
DocGet(doc, p) == IF p \in DOMAIN doc THEN doc[p] ELSE <<>>
DocPut(doc, p, v) == [q \in (DOMAIN doc) \cup {p} |-> IF q = p THEN v ELSE doc[q]]

\* a transcript entry: speaker, text and the Python type that holds the pair
\* ("tuple" as built by the agent, "array" inside the store, "list" as
\* decoded from the store)
Entry(speaker, text) == <<speaker, text, "tuple">>

\* ------------------------------------------------------------------ database.py
\* what pymongo writes for a state: tuples and lists become BSON arrays
bson_encode(state) ==
    [state EXCEPT !.conversation_history =
        [i \in DOMAIN @ |-> <<@[i][1], @[i][2], "array">>]]

\* a decoding that returns the transcript newest entry first
bson_decode_reversed(document) ==
    [document EXCEPT !.conversation_history =
        [i \in DOMAIN @ |-> <<@[Len(@) + 1 - i][1], @[Len(@) + 1 - i][2], "list">>]]

\* what pymongo reads back: BSON arrays become lists
bson_decode(document) ==
    [document EXCEPT !.conversation_history =
        [i \in DOMAIN @ |-> <<@[i][1], @[i][2], "list">>]]

\* a load that answers an id without a document with a fresh state
load_discussion_creates(store, discussion_id) ==
    IF discussion_id \in DOMAIN store
    THEN (IF store[discussion_id] # <<>>
          THEN <<bson_decode(store[discussion_id][1])>>
          ELSE <<AgentState(discussion_id, <<>>, phases[1], EmptyDoc, <<>>)>>)
    ELSE <<>>

\* load_discussion: None for an invalid id (ObjectId raises, caught) and
\* for an id without a document
load_discussion(store, discussion_id) ==
    IF discussion_id \in DOMAIN store /\ store[discussion_id] # <<>>
    THEN <<bson_decode(store[discussion_id][1])>>
    ELSE <<>>

\* a save that writes only a transcript that extends the stored one
save_discussion_if_extends(store, state, call) ==
    IF /\ call = "ok"
       /\ \/ store[state.discussion_id] = <<>>
          \/ LET old == store[state.discussion_id][1].conversation_history
                 new == state.conversation_history
             IN  /\ Len(old) <= Len(new)
                 /\ \A i \in DOMAIN old : old[i][1] = new[i][1] /\ old[i][2] = new[i][2]
    THEN [store EXCEPT ![state.discussion_id] = <<bson_encode(state)>>]
    ELSE store

\* save_discussion: update_one({"_id": id}, {"$set": state}, upsert=True);
\* a failing write is caught and leaves the collection as it was
save_discussion(store, state, call) ==
    IF call = "ok" THEN [store EXCEPT ![state.discussion_id] = <<bson_encode(state)>>]
    ELSE store

\* how a call of insert_one or update_one ends
DbCalls == {"ok", "OperationFailure", "ConnectionFailure"}

\* write_log: True, False, or the exception leaves the function; only
\* OperationFailure is caught
write_log(call) ==
    CASE call = "ok" -> "True"
      [] call = "OperationFailure" -> "False"
      [] OTHER -> "raise"

\* a save_discussion that catches OperationFailure alone
save_result_uncaught(call) ==
    CASE call = "ok" -> "True"
      [] call = "OperationFailure" -> "False"
      [] OTHER -> "raise"

\* the value save_discussion returns: every Exception is caught
save_result(call) ==
    CASE call = "ok" -> "True"
      [] OTHER -> "False"

Failed(call) == IF call = "ok" THEN 0 ELSE 1

\* ------------------------------------------------------------------ agent.py nodes
FallbackText == <<"I seem to be having trouble connecting. Could you try your message again?">>
SummaryErrorNotice == <<"I encountered an error while generating the summary. Here is the raw data:", "\n", "\n">>

\* "\n".join([msg[1] for msg in history[-1:]])
LastText(history) ==
    IF Len(history) = 0 THEN <<>> ELSE history[Len(history)][2]

\* is_new_phase
is_new_phase(history) == history[Len(history)][1] = "user"

\* a phase_node that returns the new assistant entry alone
phase_node_only_new(phase_name, state, ai_message) ==
    LET history == state.conversation_history
        current_doc == state.design_document
    IN  [conversation_history |-> <<Entry("ai", ai_message)>>,
         design_document |->
             DocPut(current_doc, phase_name,
                    DocGet(current_doc, phase_name) \o <<"\n">> \o LastText(history)
                        \o <<"\n","A","I",":"," ">> \o ai_message)]

\* a phase_node that assigns the fragment instead of extending it
phase_node_overwrite(phase_name, state, ai_message) ==
    LET history == state.conversation_history
        current_doc == state.design_document
    IN  [conversation_history |-> Append(history, Entry("ai", ai_message)),
         design_document |->
             DocPut(current_doc, phase_name,
                    <<"\n">> \o LastText(history)
                        \o <<"\n","A","I",":"," ">> \o ai_message)]

\* phase_node: the update it returns, given the assistant message
phase_node(phase_name, state, ai_message) ==
    LET history == state.conversation_history
        current_doc == state.design_document
    IN  [conversation_history |-> Append(history, Entry("ai", ai_message)),
         design_document |->
             DocPut(current_doc, phase_name,
                    DocGet(current_doc, phase_name) \o <<"\n">> \o LastText(history)
                        \o <<"\n","A","I",":"," ">> \o ai_message)]

\* phase.replace('_', ' ').title() as one atom
Title(phase) ==
    CASE phase = "vision_and_scoping" -> "Vision And Scoping"
      [] phase = "functional_requirements" -> "Functional Requirements"
      [] phase = "data_model" -> "Data Model"
      [] phase = "nfr_and_scale" -> "Nfr And Scale"
      [] phase = "architecture_and_components" -> "Architecture And Components"
      [] phase = "deep_dive_and_tradeoffs" -> "Deep Dive And Tradeoffs"

RECURSIVE DocText(_, _)
\* full_document_text over phases[i..]
DocText(doc, i) ==
    IF i > Len(phases) THEN <<>>
    ELSE (IF phases[i] \in DOMAIN doc
          THEN <<"-","-","-"," ", Title(phases[i]), " ","-","-","-","\n">>
                   \o doc[phases[i]] \o <<"\n","\n">>
          ELSE <<>>) \o DocText(doc, i + 1)

full_document_text(doc) == DocText(doc, 1)

\* a fallback summary without the error notice
summary_message_no_notice(state, llmOk, reply) ==
    IF llmOk THEN reply
    ELSE full_document_text(state.design_document)

\* _summary_node: the assistant message it appends
summary_message(state, llmOk, reply) ==
    IF llmOk THEN reply
    ELSE SummaryErrorNotice \o full_document_text(state.design_document)

\* a summary node that also repeats the summary as a second entry
_summary_node_twice(state, llmOk, reply) ==
    Append(Append(state.conversation_history,
                  Entry("ai", summary_message(state, llmOk, reply))),
           Entry("ai", summary_message(state, llmOk, reply)))

_summary_node(state, llmOk, reply) ==
    Append(state.conversation_history,
           Entry("ai", summary_message(state, llmOk, reply)))

\* ------------------------------------------------------------------ results
Update(node) == [kind |-> "update", what |-> node]
LoadError == [kind |-> "error", what |-> "Could not load discussion"]
UnexpectedError == [kind |-> "error", what |-> "An unexpected error occurred in the agent"]

\* the mapping of add_conditional_edges
EdgeTarget(r) == IF r = "end" THEN "END" ELSE r

Idle(w) == pc[w] \in {"idle", "done"}

\* ------------------------------------------------------------------ actions
Init ==
    /\ db = [i \in SessionIds |-> <<>>]
    /\ nextId = 0
    /\ turns = 0
    /\ faults = 0
    /\ pc = [w \in AllWorkers |-> "idle"]
    /\ cur = [w \in AllWorkers |-> BlankState]
    /\ gs = [w \in AllWorkers |-> BlankState]
    /\ gnext = [w \in AllWorkers |-> "END"]
    /\ gstep = [w \in AllWorkers |-> 0]
    /\ chunk = [w \in AllWorkers |-> NoChunk]
    /\ out = [w \in AllWorkers |-> <<>>]
    /\ ran = [w \in AllWorkers |-> <<>>]
    /\ routed = [w \in AllWorkers |-> {}]
    /\ pre = [w \in AllWorkers |-> <<>>]
    /\ closed = {}
    /\ ranIn = [i \in SessionIds |-> {}]
    /\ req = [w \in AllWorkers |-> NoneId]
    /\ saveRet = [w \in AllWorkers |-> "none"]
    /\ current_discussion_id = NoneId
    /\ rq = [current_phase |-> "", user_command |-> <<>>, result |-> ""]

\* run_agent_stream, steps 1 and 2, up to the first pull on graph.stream
BeginTurn(w, user_input, current_state) ==
    LET started == [current_state EXCEPT
                       !.user_command = user_input,
                       !.conversation_history = Append(@, Entry("user", user_input))]
    IN  /\ cur' = [cur EXCEPT ![w] = started]
        /\ gs' = [gs EXCEPT ![w] = started]
        /\ gnext' = [gnext EXCEPT ![w] = phases[1]]
        /\ gstep' = [gstep EXCEPT ![w] = 0]
        /\ pc' = [pc EXCEPT ![w] = "stream"]
        /\ out' = [out EXCEPT ![w] = <<>>]

\* a turn on an existing discussion that loads
ResumeTurn(w, user_input, discussion_id) ==
    /\ Idle(w)
    /\ turns < MaxTurns
    /\ discussion_id # NoneId
    /\ load_discussion(db, discussion_id) # <<>>
    /\ BeginTurn(w, user_input, load_discussion(db, discussion_id)[1])
    /\ pre' = [pre EXCEPT ![w] = db[discussion_id]]
    /\ req' = [req EXCEPT ![w] = discussion_id]
    /\ turns' = turns + 1
    /\ chunk' = [chunk EXCEPT ![w] = NoChunk]
    /\ ran' = [ran EXCEPT ![w] = <<>>]
    /\ routed' = [routed EXCEPT ![w] = {}]
    /\ saveRet' = [saveRet EXCEPT ![w] = "none"]
    /\ UNCHANGED <<db, nextId, faults, closed, ranIn, rq>>

\* a turn with an id that does not load: one error result
LoadFailTurn(w, user_input, discussion_id) ==
    /\ Idle(w)
    /\ turns < MaxTurns
    /\ discussion_id # NoneId
    /\ load_discussion(db, discussion_id) = <<>>
    /\ turns' = turns + 1
    /\ pc' = [pc EXCEPT ![w] = "done"]
    /\ out' = [out EXCEPT ![w] = <<LoadError>>]
    /\ cur' = [cur EXCEPT ![w] = BlankState]
    /\ gs' = [gs EXCEPT ![w] = BlankState]
    /\ gnext' = [gnext EXCEPT ![w] = "END"]
    /\ gstep' = [gstep EXCEPT ![w] = 0]
    /\ chunk' = [chunk EXCEPT ![w] = NoChunk]
    /\ ran' = [ran EXCEPT ![w] = <<>>]
    /\ routed' = [routed EXCEPT ![w] = {}]
    /\ pre' = [pre EXCEPT ![w] = <<>>]
    /\ req' = [req EXCEPT ![w] = discussion_id]
    /\ saveRet' = [saveRet EXCEPT ![w] = "none"]
    /\ UNCHANGED <<db, nextId, faults, closed, ranIn, rq>>

\* a turn without an id: a new discussion under a fresh ObjectId
NewTurn(w, user_input) ==
    /\ Idle(w)
    /\ turns < MaxTurns
    /\ nextId < MaxSessions
    /\ nextId' = nextId + 1
    /\ BeginTurn(w, user_input, AgentState(new_id(nextId), <<>>, phases[1], EmptyDoc, <<>>))
    /\ pre' = [pre EXCEPT ![w] = <<>>]
    /\ turns' = turns + 1
    /\ chunk' = [chunk EXCEPT ![w] = NoChunk]
    /\ ran' = [ran EXCEPT ![w] = <<>>]
    /\ routed' = [routed EXCEPT ![w] = {}]
    /\ req' = [req EXCEPT ![w] = NoneId]
    /\ saveRet' = [saveRet EXCEPT ![w] = "none"]
    /\ UNCHANGED <<db, faults, closed, ranIn, rq>>

\* the turn ends in the structured error of the except clause
Raise(w) ==
    /\ pc' = [pc EXCEPT ![w] = "done"]
    /\ out' = [out EXCEPT ![w] = Append(@, UnexpectedError)]

\* one superstep of the graph that runs a phase node, then the conditional
\* edge of that node; logNode and logEdge are the outcomes of the write_log
\* calls of the node and of _router
PhaseStep(w, llmOk, reply, logNode, logEdge) ==
    LET node == gnext[w]
        ai_message == IF llmOk THEN reply ELSE FallbackText
        upd == phase_node(node, gs[w], ai_message)
        target == _router(gs[w].current_phase, gs[w].user_command)
        failed == (IF llmOk THEN 0 ELSE 1) + Failed(logNode) + Failed(logEdge)
    IN  /\ pc[w] = "stream"
        /\ gstep[w] < RecursionLimit
        /\ node \in PhaseSet
        /\ faults + failed <= MaxFaults
        /\ faults' = faults + failed
        /\ ran' = [ran EXCEPT ![w] = Append(@, node)]
        /\ ranIn' = [ranIn EXCEPT ![gs[w].discussion_id] = @ \cup {node}]
        /\ IF write_log(logNode) = "raise"
           THEN \* the node stops at its first statement
                /\ llmOk /\ logEdge = "ok"
                /\ Raise(w)
                /\ UNCHANGED <<gs, gnext, gstep, chunk, routed>>
           ELSE IF write_log(logEdge) = "raise"
           THEN /\ Raise(w)
                /\ UNCHANGED <<gs, gnext, gstep, chunk, routed>>
           ELSE IF target = ValueError
           THEN /\ Raise(w)
                /\ routed' = [routed EXCEPT ![w] = @ \cup {gs[w].current_phase}]
                /\ UNCHANGED <<gs, gnext, gstep, chunk>>
           ELSE /\ gs' = [gs EXCEPT ![w] =
                             [@ EXCEPT !.conversation_history = upd.conversation_history,
                                       !.design_document = upd.design_document]]
                /\ gnext' = [gnext EXCEPT ![w] = EdgeTarget(target)]
                /\ gstep' = [gstep EXCEPT ![w] = @ + 1]
                /\ chunk' = [chunk EXCEPT ![w] =
                                [node |-> node,
                                 conversation_history |-> upd.conversation_history,
                                 design_document |-> <<upd.design_document>>]]
                /\ out' = [out EXCEPT ![w] = Append(@, Update(node))]
                /\ pc' = [pc EXCEPT ![w] = "yielded"]
                /\ routed' = [routed EXCEPT ![w] = @ \cup {gs[w].current_phase}]
        /\ UNCHANGED <<db, nextId, turns, cur, pre, closed, req, saveRet, rq>>

\* one superstep of the graph that runs the summary node; its edge goes to END
SummaryStep(w, llmOk, reply, logNode) ==
    LET history == _summary_node(gs[w], llmOk, reply)
        failed == (IF llmOk THEN 0 ELSE 1) + Failed(logNode)
    IN  /\ pc[w] = "stream"
        /\ gstep[w] < RecursionLimit
        /\ gnext[w] = "summarize"
        /\ faults + failed <= MaxFaults
        /\ faults' = faults + failed
        /\ ran' = [ran EXCEPT ![w] = Append(@, "summarize")]
        /\ IF write_log(logNode) = "raise"
           THEN /\ llmOk
                /\ Raise(w)
                /\ UNCHANGED <<gs, gnext, gstep, chunk>>
           ELSE /\ gs' = [gs EXCEPT ![w] = [@ EXCEPT !.conversation_history = history]]
                /\ gnext' = [gnext EXCEPT ![w] = "END"]
                /\ gstep' = [gstep EXCEPT ![w] = @ + 1]
                /\ chunk' = [chunk EXCEPT ![w] =
                                [node |-> "summarize", conversation_history |-> history,
                                 design_document |-> <<>>]]
                /\ out' = [out EXCEPT ![w] = Append(@, Update("summarize"))]
                /\ pc' = [pc EXCEPT ![w] = "yielded"]
        /\ UNCHANGED <<db, nextId, turns, cur, routed, pre, closed, ranIn, req, saveRet, rq>>

\* graph.stream has used up its supersteps and the graph has not reached END
RecursionError(w) ==
    /\ pc[w] = "stream"
    /\ gstep[w] >= RecursionLimit
    /\ Raise(w)
    /\ UNCHANGED <<db, nextId, turns, faults, cur, gs, gnext, gstep, chunk,
                   ran, routed, pre, closed, ranIn, req, saveRet, rq>>

\* current_state.update(latest_step_output)
StateUpdate(state, c) ==
    [state EXCEPT !.conversation_history = c.conversation_history,
                  !.design_document = IF c.design_document = <<>> THEN @
                                      ELSE c.design_document[1]]

\* the phase written into current_state after a chunk
NextPhase(state, next_phase) ==
    IF next_phase # "end" THEN [state EXCEPT !.current_phase = next_phase]
    ELSE state

\* the body of the for loop after the yield: update, route, save; then the
\* next pull on graph.stream, which ends the loop when the graph is at END;
\* logEdge and save are the outcomes of the write_log call of _router and of
\* update_one
Persist(w, save, logEdge) ==
    LET updated == StateUpdate(cur[w], chunk[w])
        next_phase == _router(updated.current_phase, updated.user_command)
        saved == NextPhase(updated, next_phase)
        failed == Failed(save) + Failed(logEdge)
    IN  /\ pc[w] = "yielded"
        /\ faults + failed <= MaxFaults
        /\ faults' = faults + failed
        /\ IF write_log(logEdge) = "raise"
           THEN /\ save = "ok"
                /\ Raise(w)
                /\ cur' = [cur EXCEPT ![w] = updated]
                /\ saveRet' = [saveRet EXCEPT ![w] = "none"]
                /\ UNCHANGED <<db, closed, routed>>
           ELSE IF next_phase = ValueError
           THEN /\ save = "ok"
                /\ Raise(w)
                /\ cur' = [cur EXCEPT ![w] = updated]
                /\ routed' = [routed EXCEPT ![w] = @ \cup {updated.current_phase}]
                /\ saveRet' = [saveRet EXCEPT ![w] = "none"]
                /\ UNCHANGED <<db, closed>>
           ELSE IF save_result(save) = "raise"
           THEN /\ Raise(w)
                /\ cur' = [cur EXCEPT ![w] = saved]
                /\ routed' = [routed EXCEPT ![w] = @ \cup {updated.current_phase}]
                /\ saveRet' = [saveRet EXCEPT ![w] = "raise"]
                /\ UNCHANGED <<db, closed>>
           ELSE /\ cur' = [cur EXCEPT ![w] = saved]
                /\ db' = save_discussion(db, saved, save)
                /\ saveRet' = [saveRet EXCEPT ![w] = save_result(save)]
                /\ pc' = [pc EXCEPT ![w] = IF gnext[w] = "END" THEN "done" ELSE "stream"]
                /\ closed' = IF gnext[w] = "END"
                             THEN closed \cup {saved.discussion_id} ELSE closed
                /\ routed' = [routed EXCEPT ![w] = @ \cup {updated.current_phase}]
                /\ out' = out
        /\ UNCHANGED <<nextId, turns, gs, gnext, gstep, chunk, ran, pre, ranIn, req, rq>>

Sequential(w) == \A v \in AllWorkers \ {w} : Idle(v)

Next ==
    \/ \E w \in SeqWorkers, c \in TurnCommands, d \in IdArgs :
           Sequential(w) /\ ResumeTurn(w, c, d) /\ UNCHANGED current_discussion_id
    \/ \E w \in SeqWorkers, c \in TurnCommands, d \in IdArgs :
           Sequential(w) /\ LoadFailTurn(w, c, d) /\ UNCHANGED current_discussion_id
    \/ \E w \in SeqWorkers, c \in TurnCommands :
           Sequential(w) /\ NewTurn(w, c) /\ UNCHANGED current_discussion_id
    \/ \E w \in SeqWorkers, ok \in BOOLEAN, r \in LLMReplies, ln \in DbCalls, le \in DbCalls :
           PhaseStep(w, ok, r, ln, le) /\ UNCHANGED current_discussion_id
    \/ \E w \in SeqWorkers, ok \in BOOLEAN, r \in LLMReplies, ln \in DbCalls :
           SummaryStep(w, ok, r, ln) /\ UNCHANGED current_discussion_id
    \/ \E w \in SeqWorkers : RecursionError(w) /\ UNCHANGED current_discussion_id
    \/ \E w \in SeqWorkers, sv \in DbCalls, le \in DbCalls :
           Persist(w, sv, le) /\ UNCHANGED current_discussion_id

Spec == Init /\ [][Next]_vars

\* ------------------------------------------------------------------ concurrent turns
\* run_agent_stream called from several threads at once (app.py:161 starts
\* one thread per message); the collaborators do not fail here
ConcCommands == {Txt_hi, Cmd_summarize, Cmd_end}
ConcCalls == {"ok"}

ConcNext ==
    \/ \E w \in AllWorkers, c \in ConcCommands, d \in SessionIds :
           ResumeTurn(w, c, d) /\ UNCHANGED current_discussion_id
    \/ \E w \in AllWorkers, c \in ConcCommands :
           NewTurn(w, c) /\ UNCHANGED current_discussion_id
    \/ \E w \in AllWorkers, r \in LLMReplies, ln \in ConcCalls, le \in ConcCalls :
           PhaseStep(w, TRUE, r, ln, le) /\ UNCHANGED current_discussion_id
    \/ \E w \in AllWorkers, r \in LLMReplies, ln \in ConcCalls :
           SummaryStep(w, TRUE, r, ln) /\ UNCHANGED current_discussion_id
    \/ \E w \in AllWorkers : RecursionError(w) /\ UNCHANGED current_discussion_id
    \/ \E w \in AllWorkers, sv \in ConcCalls, le \in ConcCalls :
           Persist(w, sv, le) /\ UNCHANGED current_discussion_id

\* the state of a new discussion after a turn with the input "[end]": one
\* run of the first phase node, then END
SeedState ==
    LET started == AgentState(new_id(0), <<Entry("user", Cmd_end)>>, phases[1],
                              EmptyDoc, Cmd_end)
        c == phase_node(phases[1], started, <<"reply">>)
    IN  NextPhase(StateUpdate(started, [node |-> phases[1],
                                        conversation_history |-> c.conversation_history,
                                        design_document |-> <<c.design_document>>]),
                  _router(phases[1], Cmd_end))

\* the threads start on an empty store or on a store that holds the
\* discussion of one earlier turn
ConcInit ==
    /\ \/ /\ db = [i \in SessionIds |-> <<>>]
          /\ nextId = 0
          /\ closed = {}
          /\ ranIn = [i \in SessionIds |-> {}]
       \/ /\ db = [i \in SessionIds |->
                       IF i = new_id(0) THEN <<bson_encode(SeedState)>> ELSE <<>>]
          /\ nextId = 1
          /\ closed = {new_id(0)}
          /\ ranIn = [i \in SessionIds |-> IF i = new_id(0) THEN {phases[1]} ELSE {}]
    /\ turns = 0
    /\ faults = 0
    /\ pc = [w \in AllWorkers |-> "idle"]
    /\ cur = [w \in AllWorkers |-> BlankState]
    /\ gs = [w \in AllWorkers |-> BlankState]
    /\ gnext = [w \in AllWorkers |-> "END"]
    /\ gstep = [w \in AllWorkers |-> 0]
    /\ chunk = [w \in AllWorkers |-> NoChunk]
    /\ out = [w \in AllWorkers |-> <<>>]
    /\ ran = [w \in AllWorkers |-> <<>>]
    /\ routed = [w \in AllWorkers |-> {}]
    /\ pre = [w \in AllWorkers |-> <<>>]
    /\ req = [w \in AllWorkers |-> NoneId]
    /\ saveRet = [w \in AllWorkers |-> "none"]
    /\ current_discussion_id = NoneId
    /\ rq = [current_phase |-> "", user_command |-> <<>>, result |-> ""]

ConcSpec == ConcInit /\ [][ConcNext]_vars

\* ------------------------------------------------------------------ app.py
\* latest_step.get("discussion_id") on the value of a chunk
latest_step_get_discussion_id(latest_step) ==
    IF "discussion_id" \in DOMAIN latest_step THEN latest_step.discussion_id
    ELSE NoneId

\* on_send_message: the input is disabled until the thread of the previous
\* message is over; the thread calls run_agent_stream with the id the app
\* holds
on_send_message(w, user_text) ==
    /\ \A v \in AllWorkers : Idle(v)
    /\ IF current_discussion_id = NoneId THEN NewTurn(w, user_text)
       ELSE \/ ResumeTurn(w, user_text, current_discussion_id)
            \/ LoadFailTurn(w, user_text, current_discussion_id)
    /\ UNCHANGED current_discussion_id

\* run_agent_thread: what the loop body does with the result the step of
\* thread w has yielded, if any; an error result breaks the loop
run_agent_thread(w) ==
    current_discussion_id' =
        IF /\ out'[w] # out[w]
           /\ out'[w][Len(out'[w])].kind = "update"
           /\ current_discussion_id = NoneId
        THEN latest_step_get_discussion_id(chunk'[w])
        ELSE current_discussion_id

\* on_history_item_selected: the sidebar lists the stored discussions
on_history_item_selected(selected_id) ==
    /\ db[selected_id] # <<>>
    /\ current_discussion_id' = selected_id
    /\ UNCHANGED <<db, nextId, turns, faults, pc, cur, gs, gnext, gstep, chunk,
                   out, ran, routed, pre, closed, ranIn, req, saveRet, rq>>

on_new_discussion ==
    /\ current_discussion_id # NoneId
    /\ current_discussion_id' = NoneId
    /\ UNCHANGED <<db, nextId, turns, faults, pc, cur, gs, gnext, gstep, chunk,
                   out, ran, routed, pre, closed, ranIn, req, saveRet, rq>>

AppNext ==
    \/ \E w \in SeqWorkers, c \in TurnCommands : on_send_message(w, c)
    \/ \E w \in SeqWorkers, ok \in BOOLEAN, r \in LLMReplies, ln \in DbCalls, le \in DbCalls :
           PhaseStep(w, ok, r, ln, le) /\ run_agent_thread(w)
    \/ \E w \in SeqWorkers, ok \in BOOLEAN, r \in LLMReplies, ln \in DbCalls :
           SummaryStep(w, ok, r, ln) /\ run_agent_thread(w)
    \/ \E w \in SeqWorkers : RecursionError(w) /\ run_agent_thread(w)
    \/ \E w \in SeqWorkers, sv \in DbCalls, le \in DbCalls :
           Persist(w, sv, le) /\ run_agent_thread(w)
    \/ \E d \in SessionIds : on_history_item_selected(d)
    \/ on_new_discussion

AppSpec == Init /\ [][AppNext]_vars

\* ------------------------------------------------------------------ router inputs
\* command strings for the router-only specification
Rc_empty == <<>>
Rc_blank == <<" "," ">>
Rc_hi == <<"h","i">>
Rc_next == <<"[","n","e","x","t","]">>
Rc_NEXT == <<"[","N","E","X","T","]">>
Rc_go_next == <<"g","o"," ","[","N","e","x","t","]"," ">>
Rc_xnexty == <<"x","[","n","e","x","t","]","y">>
Rc_back == <<"[","b","a","c","k","]">>
Rc_Back_sp == <<" ","[","B","a","c","k","]","\n">>
Rc_next_back == <<"[","n","e","x","t","]"," ","[","b","a","c","k","]">>
Rc_back_next == <<"[","b","a","c","k","]","[","n","e","x","t","]">>
Rc_summarize == <<"[","s","u","m","m","a","r","i","z","e","]">>
Rc_SUMMARIZE == <<"[","S","U","M","M","A","R","I","Z","E","]">>
Rc_end_summarize == <<"[","e","n","d","]"," ","[","s","u","m","m","a","r","i","z","e","]">>
Rc_summarize_back == <<"[","s","u","m","m","a","r","i","z","e","]","[","b","a","c","k","]">>
Rc_end == <<"[","e","n","d","]">>
Rc_EXIT == <<"[","E","X","I","T","]">>
Rc_exit == <<"[","e","x","i","t","]">>
Rc_exit_next == <<"[","e","x","i","t","]"," ","[","n","e","x","t","]">>
Rc_sp_next == <<"["," ","n","e","x","t","]">>
Rc_nex == <<"[","n","e","x">>
Rc_word == <<"n","e","x","t">>
Rc_end_open == <<"[","e","n","d">>

RouterCommands ==
    {Rc_empty, Rc_blank, Rc_hi, Rc_next, Rc_NEXT,
     Rc_go_next, Rc_xnexty, Rc_back, Rc_Back_sp, Rc_next_back,
     Rc_back_next, Rc_summarize, Rc_SUMMARIZE, Rc_end_summarize, Rc_summarize_back,
     Rc_end, Rc_EXIT, Rc_exit, Rc_exit_next, Rc_sp_next,
     Rc_nex, Rc_word, Rc_end_open}

\* The commands above, sorted by the bracket tokens that the text of each holds
\* when letter case is ignored (listed one by one, not computed with Contains).
\* commands holding [next]
HoldsNext ==
    {Rc_next, Rc_NEXT, Rc_go_next, Rc_xnexty, Rc_next_back, Rc_back_next, Rc_exit_next}
\* commands holding [back]
HoldsBack ==
    {Rc_back, Rc_Back_sp, Rc_next_back, Rc_back_next, Rc_summarize_back}
\* commands holding [summarize]
HoldsSummarize ==
    {Rc_summarize, Rc_SUMMARIZE, Rc_end_summarize, Rc_summarize_back}
\* commands holding [end] or [exit]
HoldsEndOrExit ==
    {Rc_end_summarize, Rc_end, Rc_EXIT, Rc_exit, Rc_exit_next}

\* ------------------------------------------------------------------ router-only specification
NoResult == ""

RouterInit ==
    /\ db = [i \in SessionIds |-> <<>>]
    /\ nextId = 0
    /\ turns = 0
    /\ faults = 0
    /\ pc = [w \in AllWorkers |-> "idle"]
    /\ cur = [w \in AllWorkers |-> BlankState]
    /\ gs = [w \in AllWorkers |-> BlankState]
    /\ gnext = [w \in AllWorkers |-> "END"]
    /\ gstep = [w \in AllWorkers |-> 0]
    /\ chunk = [w \in AllWorkers |-> NoChunk]
    /\ out = [w \in AllWorkers |-> <<>>]
    /\ ran = [w \in AllWorkers |-> <<>>]
    /\ routed = [w \in AllWorkers |-> {}]
    /\ pre = [w \in AllWorkers |-> <<>>]
    /\ closed = {}
    /\ ranIn = [i \in SessionIds |-> {}]
    /\ req = [w \in AllWorkers |-> NoneId]
    /\ saveRet = [w \in AllWorkers |-> "none"]
    /\ current_discussion_id = NoneId
    /\ rq \in [current_phase : PhaseSet, user_command : RouterCommands,
               result : {NoResult}]

\* one call of _router on the drawn state
RouterCall ==
    /\ rq.result = NoResult
    /\ rq' = [rq EXCEPT !.result = _router(rq.current_phase, rq.user_command)]
    /\ UNCHANGED turnVars

RouterNext == RouterCall

RouterSpec == RouterInit /\ [][RouterNext]_vars

\* ================================================================== claims
LastPhaseIndex == 5

\* C3: for the phase at index i the router returns the phase at index
\* min(i+1, 5) for a command holding [next], and the phase at index
\* max(i-1, 0) for a command holding [back] and not [next]; it never raises.
C3_RouterClamps ==
    rq.result # NoResult =>
        LET i == PhaseIndex(rq.current_phase)
        IN  /\ rq.user_command \in HoldsNext =>
                   rq.result = PhaseAt(Min(i + 1, LastPhaseIndex))
            /\ rq.user_command \in HoldsBack \ HoldsNext =>
                   rq.result = PhaseAt(Max(i - 1, 0))
            /\ rq.result \in PhaseSet \cup {"summarize", "end"}

\* [next] on the last phase has been routed, to the last phase
C3_Witness ==
    /\ rq.current_phase = PhaseAt(LastPhaseIndex)
    /\ rq.user_command = Rc_next
    /\ rq.result = PhaseAt(LastPhaseIndex)

\* C4: a command that holds none of the five tokens is routed to the phase
\* the session is in.
C4_RouterStays ==
    (/\ rq.result # NoResult
     /\ rq.user_command \notin
            HoldsNext \cup HoldsBack \cup HoldsSummarize \cup HoldsEndOrExit)
        => rq.result = rq.current_phase

\* "[ next]" has been routed from data_model
C4_Witness ==
    /\ rq.current_phase = "data_model"
    /\ rq.user_command = Rc_sp_next
    /\ rq.result = "data_model"

\* C5: the router decides by the highest-priority token of the command,
\* [next] > [back] > [summarize] > [end]/[exit], whatever the letter case:
\* [summarize] without [next]/[back] gives summarize, [end] or [exit] without
\* a higher token gives end, and "[next] [back]" gives the next phase.
C5_RouterPriority ==
    rq.result # NoResult =>
        /\ rq.user_command \in HoldsSummarize \ (HoldsNext \cup HoldsBack) =>
               rq.result = "summarize"
        /\ rq.user_command \in
               HoldsEndOrExit \ (HoldsNext \cup HoldsBack \cup HoldsSummarize) =>
               rq.result = "end"
        /\ rq.user_command = Rc_next_back =>
               rq.result = PhaseAt(Min(PhaseIndex(rq.current_phase) + 1, LastPhaseIndex))

\* "[end] [summarize]" has been routed to summarize, "[EXIT]" to end
C5_Witness ==
    \/ rq.user_command = Rc_end_summarize /\ rq.result = "summarize"
    \/ rq.user_command = Rc_EXIT /\ rq.result = "end"

\* ------------------------------------------------------------------ turns
\* a turn of thread w got past loading
Began(w) == cur[w] # BlankState
\* the phase the turn loaded (the graph never writes current_phase)
LoadedPhase(w) == gs[w].current_phase
TurnCommand(w) == gs[w].user_command
TurnId(w) == cur[w].discussion_id
\* the router's answer for the loaded phase and the command of the turn
TurnTarget(w) == _router(LoadedPhase(w), TurnCommand(w))
Finished(w) == pc[w] = "done" /\ Began(w)

IsPrefix(a, b) == Len(a) <= Len(b) /\ SubSeq(b, 1, Len(a)) = a
\* speaker and text of the entries, whatever Python type holds them
Pairs(h) == [i \in DOMAIN h |-> <<h[i][1], h[i][2]>>]

\* C1: a turn executes exactly one step: one phase processor when the router
\* targets a phase, one summarizer when it targets summarize, none when it
\* targets end, and the results end after that step.
C1_OneStepPerTurn ==
    \A w \in AllWorkers :
        /\ Len(ran[w]) <= 1
        /\ Finished(w) =>
               /\ TurnTarget(w) \in PhaseSet => out[w] = <<Update(TurnTarget(w))>>
               /\ TurnTarget(w) = "summarize" => out[w] = <<Update("summarize")>>
               /\ TurnTarget(w) = "end" => ran[w] = <<>> /\ out[w] = <<>>

\* C2: every processor that runs in a turn is the one the router names for
\* the loaded phase and the command of the turn.
C2_ProcessorIsRouterTarget ==
    \A w \in AllWorkers :
        (Began(w) /\ TurnTarget(w) # ValueError) =>
            \A i \in DOMAIN ran[w] : ran[w][i] = TurnTarget(w)

\* the stored record with the command field blanked
WithoutCommand(stored) ==
    IF stored = <<>> THEN <<>> ELSE <<[stored[1] EXCEPT !.user_command = <<>>]>>

\* C6: a turn routed to end runs no processor, adds no assistant entry and
\* leaves the stored record as it was, the command field aside.
C6_EndTurnChangesNothing ==
    \A w \in AllWorkers :
        (Began(w) /\ TurnTarget(w) = "end") =>
            /\ ran[w] = <<>>
            /\ \A i \in DOMAIN cur[w].conversation_history :
                   (i > Len(IF pre[w] = <<>> THEN <<>>
                            ELSE pre[w][1].conversation_history))
                       => cur[w].conversation_history[i][1] = "user"
            /\ WithoutCommand(db[TurnId(w)]) = WithoutCommand(pre[w])

PhaseDistance(p, q) ==
    IF PhaseIndex(p) > PhaseIndex(q) THEN PhaseIndex(p) - PhaseIndex(q)
    ELSE PhaseIndex(q) - PhaseIndex(p)

\* C7: when no collaborator call failed, after a turn that loaded phase P
\* with command c the stored current_phase is Router(P, c), or P when the
\* router says end, so it is at most one position away from P.
C7_StoredPhaseIsRouterTarget ==
    \A w \in AllWorkers :
        (/\ Finished(w)
         /\ faults = 0
         /\ TurnTarget(w) # ValueError
         /\ db[TurnId(w)] # <<>>)
            => LET stored == db[TurnId(w)][1].current_phase
               IN  /\ stored = IF TurnTarget(w) = "end" THEN LoadedPhase(w)
                               ELSE TurnTarget(w)
                   /\ (stored \in PhaseSet /\ LoadedPhase(w) \in PhaseSet)
                          => PhaseDistance(stored, LoadedPhase(w)) <= 1

\* C8: the router is only ever called with a current_phase of the six-phase
\* list, and no stored record has a current_phase outside that list.
C8_PhaseIsAlwaysAPhase ==
    /\ \A w \in AllWorkers : routed[w] \subseteq PhaseSet
    /\ \A i \in SessionIds : db[i] # <<>> => db[i][1].current_phase \in PhaseSet

\* C9: once the graph run of a discussion has reached END, no step changes
\* the stored current_phase of that discussion.
C9_ClosedSessionKeepsPhase ==
    [][\A i \in SessionIds :
           (i \in closed /\ db[i] # <<>>) =>
               (db'[i] # <<>> /\ db'[i][1].current_phase = db[i][1].current_phase)]_vars

\* transcript the turn of w found in the store
PreHistory(w) == IF pre[w] = <<>> THEN <<>> ELSE pre[w][1].conversation_history

\* C10: the stored transcript only grows at its end: every write keeps the
\* transcript stored before it as a prefix, and what a turn works on and
\* stores starts with the transcript it found followed by the new user entry.
C10_TranscriptAppendOnly ==
    /\ [](\A w \in AllWorkers :
              Began(w) =>
                  LET first == Append(Pairs(PreHistory(w)), <<"user", TurnCommand(w)>>)
                  IN  /\ IsPrefix(first, Pairs(cur[w].conversation_history))
                      /\ \/ db[TurnId(w)] = pre[w]
                         \/ /\ db[TurnId(w)] # <<>>
                            /\ IsPrefix(first, Pairs(db[TurnId(w)][1].conversation_history)))
    /\ [][\A i \in SessionIds :
              db[i] # <<>> =>
                  /\ db'[i] # <<>>
                  /\ IsPrefix(db[i][1].conversation_history,
                              db'[i][1].conversation_history)]_vars

\* a later turn on a stored discussion has written a longer transcript
C10_Witness ==
    \E w \in AllWorkers :
        /\ Began(w)
        /\ pre[w] # <<>>
        /\ db[TurnId(w)] # <<>>
        /\ Len(db[TurnId(w)][1].conversation_history)
               >= Len(pre[w][1].conversation_history) + 2

\* ------------------------------------------------------------------ documents
\* every fragment of d1 is there in d2 and d2's fragment starts with it
DocPrefix(d1, d2) ==
    \A p \in DOMAIN d1 : p \in DOMAIN d2 /\ IsPrefix(d1[p], d2[p])

\* document the turn of w found in the store
PreDoc(w) == IF pre[w] = <<>> THEN EmptyDoc ELSE pre[w][1].design_document

\* C11: the document fragment of every phase only grows at its end: in the
\* store, in the state of a running turn, and from what a turn loaded to what
\* it works on.
C11_FragmentsAppendOnly ==
    /\ [](\A w \in AllWorkers :
              Began(w) => /\ DocPrefix(PreDoc(w), cur[w].design_document)
                          /\ DocPrefix(cur[w].design_document, gs[w].design_document))
    /\ [][\A i \in SessionIds :
              db[i] # <<>> =>
                  /\ db'[i] # <<>>
                  /\ DocPrefix(db[i][1].design_document, db'[i][1].design_document)]_vars
    /\ [][\A w \in AllWorkers :
              turns' = turns =>
                  /\ DocPrefix(gs[w].design_document, gs'[w].design_document)
                  /\ DocPrefix(cur[w].design_document, cur'[w].design_document)]_vars

\* a later turn has stored a longer fragment for a phase that had one
C11_Witness ==
    \E w \in AllWorkers :
        /\ Began(w)
        /\ db[TurnId(w)] # <<>>
        /\ \E p \in DOMAIN PreDoc(w) :
               /\ p \in DOMAIN db[TurnId(w)][1].design_document
               /\ Len(db[TurnId(w)][1].design_document[p]) > Len(PreDoc(w)[p])

LastSpeaker(h) == IF Len(h) = 0 THEN "" ELSE h[Len(h)][1]

\* C12: every execution of a phase processor that returns adds exactly one
\* entry to the transcript, an assistant entry at the end, and starts with
\* the user entry of the turn as the last entry.
C12_ProcessorAddsOneAfterUser ==
    [][\A w \in AllWorkers :
           (/\ pc[w] = "stream"
            /\ pc'[w] = "yielded"
            /\ chunk'[w].node \in PhaseSet)
               => /\ Len(gs'[w].conversation_history)
                         = Len(gs[w].conversation_history) + 1
                  /\ LastSpeaker(gs'[w].conversation_history) = "ai"
                  /\ SubSeq(gs'[w].conversation_history, 1,
                            Len(gs[w].conversation_history))
                         = gs[w].conversation_history
                  /\ LastSpeaker(gs[w].conversation_history) = "user"]_vars

\* C13: the keys of every document, stored or in a running turn, are phases
\* whose node has been invoked in that discussion; a new discussion starts
\* with no key.
C13_DocumentKeysHaveRun ==
    /\ \A i \in SessionIds :
           /\ ranIn[i] \subseteq PhaseSet
           /\ db[i] # <<>> => DOMAIN db[i][1].design_document \subseteq ranIn[i]
    /\ \A w \in AllWorkers :
           Began(w) =>
               /\ DOMAIN cur[w].design_document \subseteq ranIn[TurnId(w)]
               /\ DOMAIN gs[w].design_document \subseteq ranIn[TurnId(w)]
               /\ (req[w] = NoneId /\ ran[w] = <<>>)
                      => DOMAIN cur[w].design_document = {}

\* a stored document has a key besides the one of the first phase
C13_Witness ==
    \E i \in SessionIds :
        /\ db[i] # <<>>
        /\ "functional_requirements" \in DOMAIN db[i][1].design_document
        /\ "functional_requirements" \in ranIn[i]
        /\ "data_model" \notin DOMAIN db[i][1].design_document

\* ------------------------------------------------------------------ failures
\* the transcript of the turn of w holds the fallback text of a phase node
LlmFailedInPhase(w) ==
    \E i \in DOMAIN cur[w].conversation_history :
        /\ i > Len(PreHistory(w))
        /\ cur[w].conversation_history[i][2] = FallbackText

\* C14: a turn in which the model call of a phase processor failed ends
\* without an error result, its transcript has gained the user entry and one
\* assistant entry, the fallback text, and the state is stored.
C14_LlmFailureTurnCompletes ==
    \A w \in AllWorkers :
        (Finished(w) /\ LlmFailedInPhase(w)) =>
            /\ \A k \in DOMAIN out[w] : out[w][k].kind = "update"
            /\ Pairs(cur[w].conversation_history)
                   = Pairs(PreHistory(w)) \o
                         << <<"user", TurnCommand(w)>>, <<"ai", FallbackText>> >>
            /\ db[TurnId(w)] = <<bson_encode(cur[w])>>

EndsInError(w) ==
    /\ pc[w] = "done"
    /\ Began(w)
    /\ out[w] # <<>>
    /\ out[w][Len(out[w])] = UnexpectedError

\* C15: a turn that ends in the error result of the except clause yields
\* that one result and leaves the stored record of the discussion as it was
\* before the turn.
C15_ErrorTurnStoresNothing ==
    \A w \in AllWorkers :
        EndsInError(w) =>
            /\ Cardinality({k \in DOMAIN out[w] : out[w][k].kind = "error"}) = 1
            /\ db[TurnId(w)] = pre[w]

\* the id argument of the turn of w is invalid or has no stored document
IdDoesNotLoad(w) ==
    /\ pc[w] # "idle"
    /\ req[w] # NoneId
    /\ req[w] = InvalidId \/ pre[w] = <<>>

\* C16: a turn whose id is invalid or unknown yields the load error and
\* nothing else: no node and no router call, no record created or changed.
C16_UnknownIdOnlyErrors ==
    /\ [](\A w \in AllWorkers :
              IdDoesNotLoad(w) =>
                  /\ pc[w] = "done"
                  /\ out[w] = <<LoadError>>
                  /\ ran[w] = <<>>
                  /\ routed[w] = {}
                  /\ ~Began(w))
    /\ [][\A w \in AllWorkers :
              (/\ turns' = turns + 1
               /\ pc'[w] = "done"
               /\ out'[w] = <<LoadError>>)
                  => /\ db' = db
                     /\ nextId' = nextId
                     /\ ranIn' = ranIn]_vars

\* an invalid id has been answered while a discussion is stored
C16_Witness ==
    \E w \in AllWorkers :
        /\ pc[w] = "done"
        /\ req[w] = InvalidId
        /\ out[w] = <<LoadError>>
        /\ \E i \in SessionIds : db[i] # <<>>

\* ------------------------------------------------------------------ summarizer
\* C17: the summarizer runs only in a turn routed to summarize; when it
\* returns it has added exactly one assistant entry and left the document
\* alone, the graph is at END, and no node runs after it in the turn.
C17_SummarizerIsTerminal ==
    /\ [](\A w \in AllWorkers :
              \A i \in DOMAIN ran[w] :
                  ran[w][i] = "summarize" =>
                      /\ i = Len(ran[w])
                      /\ pc[w] # "stream"
                      /\ TurnTarget(w) = "summarize")
    /\ [][\A w \in AllWorkers :
              (/\ pc[w] = "stream"
               /\ pc'[w] = "yielded"
               /\ chunk'[w].node = "summarize")
                  => /\ Len(gs'[w].conversation_history)
                            = Len(gs[w].conversation_history) + 1
                     /\ SubSeq(gs'[w].conversation_history, 1,
                               Len(gs[w].conversation_history))
                            = gs[w].conversation_history
                     /\ LastSpeaker(gs'[w].conversation_history) = "ai"
                     /\ gs'[w].design_document = gs[w].design_document
                     /\ gnext'[w] = "END"]_vars
    /\ [][\A w \in AllWorkers :
              (pc[w] = "yielded" /\ chunk[w].node = "summarize" /\ pc'[w] # "yielded")
                  => /\ cur'[w].design_document = cur[w].design_document
                     /\ pc'[w] = "done"]_vars

\* a turn has run the first phase node, then the summarizer, and is over
C17_Witness ==
    \E w \in AllWorkers :
        /\ pc[w] = "done"
        /\ ran[w] = <<phases[1], "summarize">>
        /\ out[w] = <<Update(phases[1]), Update("summarize")>>

\* the phases with a fragment, in the order of the registry
Present(doc) == SelectSeq(phases, LAMBDA p : p \in DOMAIN doc)

Section(doc, p) ==
    <<"-","-","-"," ", Title(p), " ","-","-","-","\n">> \o doc[p] \o <<"\n","\n">>

RECURSIVE Concat(_)
Concat(seqs) == IF seqs = <<>> THEN <<>> ELSE Head(seqs) \o Concat(Tail(seqs))

\* error notice, then one section per phase that has a fragment
RawSummary(doc) ==
    SummaryErrorNotice \o
        Concat([i \in DOMAIN Present(doc) |-> Section(doc, Present(doc)[i])])

\* C18: the entry the summarizer appends is a reply of the model or, when
\* the model call failed, the error notice followed by one section per phase
\* that has a fragment, in registry order; either way the step is a normal
\* update.
C18_SummaryFallbackIsRawDocument ==
    [][\A w \in AllWorkers :
           (/\ pc[w] = "stream"
            /\ gnext[w] = "summarize"
            /\ Len(ran'[w]) = Len(ran[w]) + 1
            /\ out'[w] # Append(out[w], UnexpectedError))
               => LET h == gs'[w].conversation_history
                      text == h[Len(h)][2]
                  IN  /\ text \in LLMReplies
                         \/ text = RawSummary(gs[w].design_document)
                      /\ faults' = faults => text \in LLMReplies
                      /\ out'[w] = Append(out[w], Update("summarize"))
                      /\ pc'[w] = "yielded"]_vars

\* the raw document of two phases has been appended as the summary
C18_Witness ==
    \E w \in AllWorkers :
        /\ ran[w] # <<>>
        /\ ran[w][Len(ran[w])] = "summarize"
        /\ pc[w] = "yielded"
        /\ Cardinality(DOMAIN gs[w].design_document) >= 2
        /\ LET h == gs[w].conversation_history
           IN  /\ h[Len(h)][2][1] = SummaryErrorNotice[1]
               /\ h[Len(h)][2] = RawSummary(gs[w].design_document)

\* ------------------------------------------------------------------ store failures
\* C19: save_discussion returns True or False and never raises; when it
\* returns False the store is as before, no error result is added, and the
\* update of the step has been yielded and is in current_state.
C19_SaveFailureIsSwallowed ==
    /\ [](\A w \in AllWorkers : saveRet[w] \in {"none", "True", "False"})
    /\ [][\A w \in AllWorkers :
              (pc[w] = "yielded" /\ pc'[w] # "yielded" /\ saveRet'[w] = "False")
                  => /\ db' = db
                     /\ out'[w] = out[w]
                     /\ out[w][Len(out[w])] = Update(chunk[w].node)
                     /\ cur'[w].conversation_history = chunk[w].conversation_history
                     /\ pc'[w] = IF gnext[w] = "END" THEN "done" ELSE "stream"]_vars

\* a turn is over without error although its only save failed
C19_Witness ==
    \E w \in AllWorkers :
        /\ pc[w] = "done"
        /\ saveRet[w] = "False"
        /\ out[w] = <<Update(phases[1])>>
        /\ db[TurnId(w)] = <<>>

\* C20: no error result is due to a failed log write: whenever a step adds
\* the error result, the graph is out of supersteps or the router's index
\* lookup has failed.
C20_LogFailureNeverAborts ==
    [][\A w \in AllWorkers :
           (out'[w] = Append(out[w], UnexpectedError)) =>
               \/ /\ pc[w] = "stream"
                  /\ \/ gstep[w] >= RecursionLimit
                     \/ /\ gnext[w] \in PhaseSet
                        /\ _router(gs[w].current_phase, gs[w].user_command) = ValueError
               \/ /\ pc[w] = "yielded"
                  /\ _router(cur[w].current_phase, cur[w].user_command) = ValueError]_vars

\* ------------------------------------------------------------------ store
\* the store holds the discussion of the seed turn after one "[end]" turn on
\* a new discussion
SeedIsReached == db[new_id(0)] = <<bson_encode(SeedState)>>

C22_SessionsAreIndependent ==
    /\ [][\A i \in SessionIds :
              db'[i] # db[i] =>
                  \E w \in AllWorkers :
                      /\ pc[w] = "yielded"
                      /\ pc'[w] # "yielded"
                      /\ cur[w].discussion_id = i]_vars
    /\ [][nextId' # nextId =>
              \E w \in AllWorkers :
                  /\ Idle(w)
                  /\ pc'[w] = "stream"
                  /\ cur'[w].discussion_id \notin 1..nextId
                  /\ db[cur'[w].discussion_id] = <<>>
                  /\ \A v \in AllWorkers \ {w} :
                         cur[v].discussion_id # cur'[w].discussion_id
                  /\ db' = db]_vars

\* two turns on different discussions are under way and both have saved
C22_Witness ==
    \E w, v \in AllWorkers :
        /\ TurnId(w) # TurnId(v)
        /\ pc[w] = "stream" /\ ran[w] # <<>>
        /\ pc[v] = "stream" /\ ran[v] # <<>>
        /\ db[TurnId(w)] # <<>> /\ db[TurnId(v)] # <<>>
        /\ db[TurnId(w)] # pre[w] /\ db[TurnId(v)] # pre[v]

\* C23: an execution of the node of phase P extends document[P] by a
\* newline, the text of the user message of the turn, and the labelled
\* assistant response, and leaves the other fragments, the id and
\* current_phase as they were.
C23_FragmentGetsUserAndReply ==
    [][\A w \in AllWorkers :
           (/\ pc[w] = "stream"
            /\ pc'[w] = "yielded"
            /\ chunk'[w].node \in PhaseSet)
               => LET P == chunk'[w].node
                      before == gs[w].design_document
                      after == gs'[w].design_document
                      h == gs'[w].conversation_history
                  IN  /\ after[P] = DocGet(before, P) \o <<"\n">> \o TurnCommand(w)
                                        \o <<"\n","A","I",":"," ">> \o h[Len(h)][2]
                      /\ \A q \in DOMAIN before \ {P} : after[q] = before[q]
                      /\ DOMAIN after = DOMAIN before \cup {P}
                      /\ gs'[w].discussion_id = gs[w].discussion_id
                      /\ gs'[w].current_phase = gs[w].current_phase]_vars

\* C24: every execution of a phase node in a turn finds a user entry last
\* in the transcript, so is_new_phase holds and the guiding prompt is sent.
C24_EveryExecutionIsNewPhase ==
    [][\A w \in AllWorkers :
           (/\ pc[w] = "stream"
            /\ Len(ran'[w]) = Len(ran[w]) + 1
            /\ ran'[w][Len(ran'[w])] \in PhaseSet)
               => /\ is_new_phase(gs[w].conversation_history)
                      <=> LastSpeaker(gs[w].conversation_history) = "user"
                  /\ is_new_phase(gs[w].conversation_history)]_vars

\* C25: a save that succeeds stores the state of the saving turn, whatever
\* the store held for the id: nothing is compared or merged.
C25_LaterSaveOverwrites ==
    [][\A w \in AllWorkers :
           (pc[w] = "yielded" /\ pc'[w] # "yielded" /\ saveRet'[w] = "True")
               => db'[cur'[w].discussion_id] = <<bson_encode(cur'[w])>>]_vars

\* two turns on one discussion have both loaded before either saved and have
\* both ended without an error, and the stored transcript has no entry with
\* the user message of one of them
C25_Witness ==
    \E w, v \in AllWorkers :
        /\ w # v
        /\ Finished(w) /\ Finished(v)
        /\ TurnId(w) = TurnId(v)
        /\ pre[w] = pre[v] /\ pre[w] # <<>>
        /\ \A k \in DOMAIN out[w] : out[w][k].kind = "update"
        /\ \A k \in DOMAIN out[v] : out[v][k].kind = "update"
        /\ out[w] # <<>> /\ out[v] # <<>>
        /\ LET stored == Pairs(db[TurnId(w)][1].conversation_history)
           IN  /\ \A i \in DOMAIN stored : stored[i] # <<"user", TurnCommand(w)>>
               /\ \A i \in DOMAIN stored :
                      i > Len(PreHistory(w)) + 1 => stored[i][1] = "ai"
               /\ Len(stored) < Len(PreHistory(w)) + Len(out[w]) + Len(out[v]) + 2

\* C26: when the first result of a turn started without an id is a normal
\* update, the app holds the id of the discussion of that turn afterwards.
C26_AppKeepsNewId ==
    [][\A w \in AllWorkers :
           (/\ req[w] = NoneId
            /\ pc[w] = "stream"
            /\ out[w] = <<>>
            /\ current_discussion_id = NoneId
            /\ out'[w] = <<Update(phases[1])>>)
               => current_discussion_id' = cur[w].discussion_id]_vars

\* the command of the turn of w holds [next] or [back]
HoldsNextOrBack(w) ==
    \/ Contains(Strip(Lower(TurnCommand(w))), TokNext)
    \/ Contains(Strip(Lower(TurnCommand(w))), TokBack)

\* C27: in a turn whose command holds [next] or [back] every current_phase
\* the router looks up in the phase list is a phase, so the lookup does not
\* raise and the turn does not end in the error result on its account.
C27_NextBackNeverRaises ==
    \A w \in AllWorkers :
        (Began(w) /\ HoldsNextOrBack(w)) =>
            /\ LoadedPhase(w) \in PhaseSet
            /\ routed[w] \subseteq PhaseSet
            /\ TurnTarget(w) # ValueError

====
